---- MODULE Spec2Model ----
(***************************************************************************)
(* Model of optn.py: an option-return calculator.  The date resolver       *)
(* (handle_date_input), the default-expiry helper (next_friday), the       *)
(* weekday-span counter (weekdays_between) and the two report handlers     *)
(* (run_short_put, run_covered_call) driven by main.                       *)
(*                                                                         *)
(* Dates are records [year, month, day] over the proleptic Gregorian       *)
(* calendar, as datetime.date.  Text is a sequence of one-character        *)
(* strings.  An optional value is <<>> (None) or <<v>>.  Money is counted  *)
(* in thousandths of a dollar, so that the 0.005 commission is the         *)
(* integer 5; a ratio or a power that the program computes in floating     *)
(* point is kept as the record of its operands.                            *)
(***************************************************************************)
EXTENDS Integers, Sequences, FiniteSets, TLC

VARIABLES
    pc,           \* where main is: "main", "run", "exit" ("idle": main is not run)
    today,        \* main: today = date.today(); handle_date_input: today
    next_fri,     \* main: next_fri = next_friday(today)
    args,         \* main: args = parser.parse_args()
    expiry_date,  \* run_short_put, run_covered_call: expiry_date
    out,          \* the lines printed
    exc,          \* the exception that ended the run, or "none"
    date_arg,     \* handle_date_input: date_arg
    resolved,     \* handle_date_input: what it returned or raised
    start_date,   \* weekdays_between: start_date; next_friday: today
    end_date,     \* weekdays_between: end_date
    weekdays,     \* weekdays_between: its result
    friday        \* next_friday: its result

vars == <<pc, today, next_fri, args, expiry_date, out, exc,
          date_arg, resolved, start_date, end_date, weekdays, friday>>

None == <<>>
Some(v) == <<v>>

(***************************************************************************)
(* datetime.date: the calendar                                             *)
(***************************************************************************)
MINYEAR == 1
MAXYEAR == 9999
MaxOrdinal == 3652059
DI400Y == 146097
DI100Y == 36524
DI4Y == 1461
CIntMax == 2147483647
MaxDeltaDays == 999999999

MkDate(y, m, d) == [year |-> y, month |-> m, day |-> d]
NoDate == MkDate(0, 0, 0)

is_leap(y) == y % 4 = 0 /\ (y % 100 # 0 \/ y % 400 = 0)

DAYS_IN_MONTH == <<31, 28, 31, 30, 31, 30, 31, 31, 30, 31, 30, 31>>
DAYS_BEFORE_MONTH == <<0, 31, 59, 90, 120, 151, 181, 212, 243, 273, 304, 334>>

days_in_month(y, m) == IF m = 2 /\ is_leap(y) THEN 29 ELSE DAYS_IN_MONTH[m]

days_before_year(y) ==
    LET p == y - 1 IN p * 365 + (p \div 4) - (p \div 100) + (p \div 400)

days_before_month(y, m) ==
    DAYS_BEFORE_MONTH[m] + (IF m > 2 /\ is_leap(y) THEN 1 ELSE 0)

\* date.toordinal(): 0001-01-01 is day 1
toordinal(d) == days_before_year(d.year) + days_before_month(d.year, d.month) + d.day

\* date.fromordinal(), as datetime computes it
fromordinal(ord) ==
    LET n0   == ord - 1
        n400 == n0 \div DI400Y
        r400 == n0 % DI400Y
        n100 == r400 \div DI100Y
        r100 == r400 % DI100Y
        n4   == r100 \div DI4Y
        r4   == r100 % DI4Y
        n1   == r4 \div 365
        n    == r4 % 365
        year == n400 * 400 + 1 + n100 * 100 + n4 * 4 + n1
        leapyear == n1 = 3 /\ (n4 # 24 \/ n100 = 3)
        m0   == (n + 50) \div 32
        p0   == DAYS_BEFORE_MONTH[m0] + (IF m0 > 2 /\ leapyear THEN 1 ELSE 0)
        month == IF p0 > n THEN m0 - 1 ELSE m0
        preceding == IF p0 > n
                     THEN p0 - (DAYS_IN_MONTH[month]
                                + (IF month = 2 /\ leapyear THEN 1 ELSE 0))
                     ELSE p0
    IN  IF n1 = 4 \/ n100 = 4
        THEN MkDate(year - 1, 12, 31)
        ELSE MkDate(year, month, n - preceding + 1)

\* date.weekday(): Monday = 0 ... Sunday = 6
weekday(d) == (toordinal(d) + 6) % 7

\* the date constructor accepts exactly the real Gregorian dates of years 1..9999
valid_date(y, m, d) ==
    /\ MINYEAR <= y /\ y <= MAXYEAR
    /\ 1 <= m /\ m <= 12
    /\ 1 <= d /\ d <= days_in_month(y, m)

\* date < date
date_lt(a, b) == toordinal(a) < toordinal(b)

\* math.ceil(a / b) for b > 0
ceil(a, b) == -((-a) \div b)

(***************************************************************************)
(* next_friday, weekdays_between                                           *)
(***************************************************************************)
FRIDAY == 4

\* a variant that never answers today: a Friday gives the Friday after
next_friday_strict(t) ==
    LET days_until_friday == ((FRIDAY - weekday(t) - 1) % 7) + 1
    IN  fromordinal(toordinal(t) + days_until_friday)

\* a variant without the modulo: after a Friday the offset is negative
next_friday_no_wrap(t) ==
    LET days_until_friday == FRIDAY - weekday(t)
    IN  fromordinal(toordinal(t) + days_until_friday)

next_friday(t) ==
    LET days_until_friday == (FRIDAY - weekday(t)) % 7
    IN  fromordinal(toordinal(t) + days_until_friday)

\* a variant that leaves the end date out of the span
weekdays_between_exclusive(s, e) ==
    LET startnum == weekday(s)
        delta    == toordinal(e) - toordinal(s)
        num_saturdays == ceil(startnum + 2 + delta, 7) - ceil(startnum + 2, 7)
        num_sundays   == ceil(startnum + 1 + delta, 7) - ceil(startnum + 1, 7)
    IN  delta - num_saturdays - num_sundays

\* a variant that counts every single day as one day in the market
weekdays_between_at_least_one(s, e) ==
    LET startnum == weekday(s)
        delta    == (toordinal(e) - toordinal(s)) + 1
        num_saturdays == ceil(startnum + 2 + delta, 7) - ceil(startnum + 2, 7)
        num_sundays   == ceil(startnum + 1 + delta, 7) - ceil(startnum + 1, 7)
    IN  IF delta = 1 THEN 1 ELSE delta - num_saturdays - num_sundays

\* a variant that forgets the Sundays
weekdays_between_no_sundays(s, e) ==
    LET startnum == weekday(s)
        delta    == (toordinal(e) - toordinal(s)) + 1
        num_saturdays == ceil(startnum + 2 + delta, 7) - ceil(startnum + 2, 7)
    IN  delta - num_saturdays

weekdays_between(s, e) ==
    LET startnum == weekday(s)
        delta    == (toordinal(e) - toordinal(s)) + 1
        num_saturdays == ceil(startnum + 2 + delta, 7) - ceil(startnum + 2, 7)
        num_sundays   == ceil(startnum + 1 + delta, 7) - ceil(startnum + 1, 7)
    IN  delta - num_saturdays - num_sundays

(***************************************************************************)
(* Text: str.startswith, str.split('-'), int()                             *)
(***************************************************************************)
Digits == {"0", "1", "2", "3", "9"}
Alphabet == Digits \cup {"t", "+", "-"}

digit_value(c) ==
    CASE c = "0" -> 0 [] c = "1" -> 1 [] c = "2" -> 2 [] c = "3" -> 3 [] c = "9" -> 9

startswith(s, c) == Len(s) >= 1 /\ s[1] = c

\* s[1:]
rest(s) == SubSeq(s, 2, Len(s))

RECURSIVE split(_)
\* s.split('-')
split(s) ==
    IF \E i \in 1..Len(s) : s[i] = "-"
    THEN LET i == CHOOSE k \in 1..Len(s) :
                     s[k] = "-" /\ \A j \in 1..(k - 1) : s[j] # "-"
         IN  <<SubSeq(s, 1, i - 1)>> \o split(SubSeq(s, i + 1, Len(s)))
    ELSE <<s>>

RECURSIVE magnitude(_)
\* the value of a run of decimal digits, read left to right; -1 stands for
\* every value above the largest C int (Python's int has no upper limit,
\* the date and timedelta constructors do)
magnitude(ds) ==
    IF ds = <<>> THEN 0
    ELSE LET v == magnitude(SubSeq(ds, 1, Len(ds) - 1))
             d == digit_value(ds[Len(ds)])
         IN  IF v = -1 \/ v > (CIntMax - d) \div 10 THEN -1 ELSE v * 10 + d

\* a variant that drops the sign
int_unsigned(s) ==
    LET signed == Len(s) >= 1 /\ s[1] \in {"+", "-"}
        ds     == IF signed THEN rest(s) ELSE s
        isnum  == Len(ds) >= 1 /\ \A i \in 1..Len(ds) : ds[i] \in Digits
        m      == IF isnum THEN magnitude(ds) ELSE 0
    IN  [ok |-> isnum, big |-> m = -1, val |-> IF m = -1 THEN 0 ELSE m]

\* int(s): an optional sign, then one or more digits
int(s) ==
    LET signed == Len(s) >= 1 /\ s[1] \in {"+", "-"}
        ds     == IF signed THEN rest(s) ELSE s
        isnum  == Len(ds) >= 1 /\ \A i \in 1..Len(ds) : ds[i] \in Digits
        m      == IF isnum THEN magnitude(ds) ELSE 0
    IN  [ok  |-> isnum,
         big |-> m = -1,
         val |-> IF m = -1 THEN 0
                 ELSE IF signed /\ s[1] = "-" THEN -m ELSE m]

(***************************************************************************)
(* handle_date_input                                                       *)
(***************************************************************************)
Returned(d) == [exc |-> "none", value |-> d]
Raised(e) == [exc |-> e, value |-> NoDate]
Pending == [exc |-> "pending", value |-> NoDate]

\* today + timedelta(days=n), n the result of int()
add_days(t, n) ==
    IF n.big \/ n.val > MaxDeltaDays \/ n.val < -MaxDeltaDays
    THEN Raised("OverflowError")
    ELSE LET o == toordinal(t) + n.val
         IN  IF o < 1 \/ o > MaxOrdinal
             THEN Raised("OverflowError")
             ELSE Returned(fromordinal(o))

\* date(*parts), parts the results of int(): an argument that does not fit
\* a C int is refused before the range checks
date(parts) ==
    IF \E i \in 1..3 : parts[i].big
    THEN Raised("OverflowError")
    ELSE IF valid_date(parts[1].val, parts[2].val, parts[3].val)
         THEN Returned(MkDate(parts[1].val, parts[2].val, parts[3].val))
         ELSE Raised("ValueError")

known(n) == [ok |-> TRUE, big |-> FALSE, val |-> n]

handle_date_input(arg, t) ==
    IF arg = None THEN Returned(t)
    ELSE LET s == arg[1] IN
         IF startswith(s, "t")
         THEN LET n == int(rest(s))
              IN  IF ~n.ok THEN Raised("ValueError") ELSE add_days(t, n)
         ELSE LET segs  == split(s)
                  parts == [i \in 1..Len(segs) |-> int(segs[i])]
              IN  IF \E i \in 1..Len(segs) : ~parts[i].ok
                  THEN Raised("ValueError")
                  ELSE CASE Len(parts) = 1 ->
                                date(<<known(t.year), known(t.month), parts[1]>>)
                         [] Len(parts) = 2 ->
                                date(<<known(t.year), parts[1], parts[2]>>)
                         [] Len(parts) = 3 -> date(parts)
                         [] OTHER -> Raised("ValueError")

(***************************************************************************)
(* run_short_put, run_covered_call                                         *)
(***************************************************************************)
Commission == 5
Shares == 100

\* what a report line shows: num/den, or (num/den) ** (260.0/per) - 1 when
\* per is not 0; 260.0/per raises ZeroDivisionError when per is 0
Plain(n) == [num |-> n, den |-> 1, per |-> 0]
Ratio(n, d) == [num |-> n, den |-> d, per |-> 0]
Annualized(n, d, w) == [num |-> n, den |-> d, per |-> w]
Line(l, v) == [label |-> l, value |-> v]

ExpiryError == Line("Error: Expiry date cannot be before the open date!", Plain(0))

Outcome(e, o, x) == [expiry_date |-> Some(e), out |-> o, exc |-> x]

\* a variant that takes the default from main's next_fri
expiry_or_next_fri(a) ==
    IF a.expiry # None THEN a.expiry[1] ELSE next_fri

\* args.expiry if args.expiry else next_friday(args.open)
expiry_or_default(a) ==
    IF a.expiry # None THEN a.expiry[1] ELSE next_friday(a.open)

\* args.basis if args.basis else args.strike: None and 0.0 are both false
basis_or_strike(a) ==
    IF a.basis # None /\ a.basis[1] # 0 THEN a.basis[1] ELSE a.strike

\* a variant without the guard
expiry_never_before_open(e, a) == FALSE

\* expiry_date < args.open
expiry_before_open(e, a) == date_lt(e, a.open)

run_short_put(a) ==
    LET e == expiry_or_default(a) IN
    IF expiry_before_open(e, a) THEN Outcome(e, <<ExpiryError>>, "none")
    ELSE
    LET w == weekdays_between(a.open, e)
        head == << Line("Days in Market", Plain(w)),
                   Line("Capital", Plain(a.strike * Shares)),
                   \* premium * 100.0 - 0.5, and 0.5 is 100 commissions
                   Line("Max Value", Plain(a.premium * Shares - Commission * Shares)),
                   Line("Pct Gain", Ratio(a.premium - Commission, a.strike)) >>
        tail == << Line("Pct Annualized",
                        Annualized(a.premium - Commission + a.strike, a.strike, w)),
                   Line("Break Even", Plain(a.strike - a.premium)) >>
    IN  IF a.strike = 0 THEN Outcome(e, <<>>, "ZeroDivisionError")
        ELSE IF w = 0 THEN Outcome(e, head, "ZeroDivisionError")
        ELSE Outcome(e, head \o tail, "none")

run_covered_call(a) ==
    LET e == expiry_or_default(a)
        basis == basis_or_strike(a)
    IN
    IF expiry_before_open(e, a) THEN Outcome(e, <<ExpiryError>>, "none")
    ELSE
    LET w == weekdays_between(a.open, e)
        max_gain == (a.strike - basis) + (a.premium - Commission)
        low_gain == a.premium - Commission
        head == << Line("Days in Market", Plain(w)),
                   Line("Capital", Plain(basis * Shares)),
                   Line("Max Value", Plain(max_gain * Shares)),
                   Line("Pct Max Gain", Ratio(max_gain, basis)) >>
        mid  == << Line("Max Annualized", Annualized(basis + max_gain, basis, w)),
                   Line("Low Value", Plain(low_gain * Shares)),
                   Line("Pct Low Gain", Ratio(low_gain, basis)),
                   Line("Low Annualized", Annualized(basis + low_gain, basis, w)) >>
    IN  IF basis = 0 THEN Outcome(e, <<>>, "ZeroDivisionError")
        ELSE IF w = 0 THEN Outcome(e, head, "ZeroDivisionError")
        ELSE Outcome(e, head \o mid, "none")

(***************************************************************************)
(* main: one invocation of the program                                     *)
(***************************************************************************)
TodaySpan == 7
MaxLen == 5
SpanDays == 28
WideLen == 10

FirstDay == toordinal(MkDate(2024, 2, 10))

Todays == {fromordinal(FirstDay + k) : k \in 0..(TodaySpan - 1)}

\* the date expressions tried on the command line
CliDates ==
    {<<"t", sg, d>> : sg \in {"+", "-"}, d \in Digits}
      \cup {<<"2", "0">>, <<"3", "-", "2">>, <<"2", "0", "2", "3", "-", "2", "-", "2", "9">>,
            <<"t">>, <<"2", "-", "3", "0">>}
CliDateArgs == {None} \cup {Some(x) : x \in CliDates}

Strikes == {50000, 100000}
Premiums == {0, 1500}
Bases == {None, Some(0), Some(40000)}

NoArgs == [command |-> None, open |-> NoDate, expiry |-> None,
           strike |-> 0, premium |-> 0, basis |-> None]

IdleProgram ==
    /\ pc = "idle" /\ next_fri = NoDate /\ args = NoArgs
    /\ expiry_date = None /\ out = <<>> /\ exc = "none"
IdleResolver == date_arg = None /\ resolved = Pending
IdleDates == start_date = NoDate /\ end_date = NoDate /\ weekdays = None /\ friday = None

Init ==
    /\ pc = "main" /\ today = NoDate /\ next_fri = NoDate /\ args = NoArgs
    /\ expiry_date = None /\ out = <<>> /\ exc = "none"
    /\ IdleResolver /\ IdleDates

\* main, lines 97-124, with a sub-command: the snapshot of today, then
\* parse_args; a type= callable that raises ValueError ends the run with
\* the parser's error (SystemExit), any other exception escapes
ParseArgs ==
    /\ pc = "main"
    /\ \E t \in Todays, cmd \in {"sp", "cc"}, o \in CliDateArgs, e \in CliDateArgs,
          s \in Strikes, p \in Premiums, b \in Bases :
          LET ro == IF o = None THEN Returned(t) ELSE handle_date_input(o, t)
              re == IF e = None THEN Returned(NoDate) ELSE handle_date_input(e, t)
              bad == IF ro.exc # "none" THEN ro.exc
                     ELSE IF re.exc # "none" THEN re.exc ELSE "none"
          IN  /\ cmd = "sp" => b = None
              /\ today' = t
              /\ next_fri' = next_friday(t)
              /\ IF bad # "none"
                 THEN /\ exc' = (IF bad = "ValueError" THEN "SystemExit" ELSE bad)
                      /\ pc' = "exit"
                      /\ args' = args
                 ELSE /\ exc' = exc
                      /\ pc' = "run"
                      /\ args' = [command |-> Some(cmd), open |-> ro.value,
                                  expiry |-> IF e = None THEN None ELSE Some(re.value),
                                  strike |-> s, premium |-> p, basis |-> b]
    /\ UNCHANGED <<expiry_date, out, date_arg, resolved,
                   start_date, end_date, weekdays, friday>>

\* main, lines 97-129, without a sub-command: parser.print_help()
PrintHelp ==
    /\ pc = "main"
    /\ \E t \in Todays : today' = t /\ next_fri' = next_friday(t)
    /\ out' = <<Line("usage", Plain(0))>>
    /\ pc' = "exit"
    /\ UNCHANGED <<args, expiry_date, exc, date_arg, resolved,
                   start_date, end_date, weekdays, friday>>

Finish(r) ==
    /\ expiry_date' = r.expiry_date
    /\ out' = r.out
    /\ exc' = r.exc
    /\ pc' = "exit"
    /\ UNCHANGED <<today, next_fri, args, date_arg, resolved,
                   start_date, end_date, weekdays, friday>>

\* args.func(args) with func = run_short_put
RunShortPut ==
    /\ pc = "run" /\ args.command = Some("sp")
    /\ Finish(run_short_put(args))

\* args.func(args) with func = run_covered_call
RunCoveredCall ==
    /\ pc = "run" /\ args.command = Some("cc")
    /\ Finish(run_covered_call(args))

Next == ParseArgs \/ PrintHelp \/ RunShortPut \/ RunCoveredCall

Spec == Init /\ [][Next]_vars

(***************************************************************************)
(* handle_date_input on its own: every text of up to MaxLen characters,    *)
(* and texts with a segment of WideLen digits                              *)
(***************************************************************************)
Texts == UNION {[1..n -> Alphabet] : n \in 0..MaxLen}
Nines == [i \in 1..WideLen |-> "9"]
WideTexts == {Nines, <<"2", "-">> \o Nines, <<"t", "+">> \o Nines}
DateArgs == {None} \cup {Some(x) : x \in Texts \cup WideTexts}

ResolverTodays ==
    {MkDate(2024, 2, 28), MkDate(2023, 2, 28), MkDate(2024, 9, 30), MkDate(2023, 12, 31)}

InitResolver ==
    /\ IdleProgram /\ IdleDates
    /\ today \in ResolverTodays
    /\ date_arg \in DateArgs
    /\ resolved = Pending

Resolve ==
    /\ resolved = Pending
    /\ resolved' = handle_date_input(date_arg, today)
    /\ UNCHANGED <<pc, today, next_fri, args, expiry_date, out, exc,
                   date_arg, start_date, end_date, weekdays, friday>>

NextResolver == Resolve

SpecResolver == InitResolver /\ [][NextResolver]_vars

(***************************************************************************)
(* next_friday and weekdays_between on their own: every pair of dates of   *)
(* a window of SpanDays days that holds a leap day                         *)
(***************************************************************************)
Window == {fromordinal(FirstDay + k) : k \in 0..(SpanDays - 1)}

InitDates ==
    /\ IdleProgram /\ IdleResolver
    /\ today = NoDate
    /\ start_date \in Window
    /\ end_date \in Window
    /\ weekdays = None
    /\ friday = None

CountWeekdays ==
    /\ weekdays = None
    /\ weekdays' = Some(weekdays_between(start_date, end_date))
    /\ UNCHANGED <<pc, today, next_fri, args, expiry_date, out, exc,
                   date_arg, resolved, start_date, end_date, friday>>

NextFriday ==
    /\ friday = None
    /\ friday' = Some(next_friday(start_date))
    /\ UNCHANGED <<pc, today, next_fri, args, expiry_date, out, exc,
                   date_arg, resolved, start_date, end_date, weekdays>>

NextDates == CountWeekdays \/ NextFriday

SpecDates == InitDates /\ [][NextDates]_vars

(***************************************************************************)
(* Properties of weekdays_between and next_friday (SpecDates)              *)
(***************************************************************************)
is_weekend(n) == weekday(fromordinal(n)) \in {5, 6}

\* the days of s..e that are Monday..Friday, counted one by one
day_by_day(s, e) == Cardinality({n \in toordinal(s)..toordinal(e) : ~is_weekend(n)})

\* C1: for start <= end, weekdays_between(start, end) is the number of
\* Monday..Friday days of start..end, both ends included, as counted day by
\* day; it is never negative, and it is 5 when end = start + 6 days.
C1_WeekdaysMatchDayByDay ==
    (weekdays # None /\ ~date_lt(end_date, start_date)) =>
        /\ weekdays[1] = day_by_day(start_date, end_date)
        /\ weekdays[1] >= 0
        /\ (toordinal(end_date) = toordinal(start_date) + 6 => weekdays[1] = 5)

C1_Witness ==
    /\ weekdays = Some(5)
    /\ weekday(start_date) = 6
    /\ toordinal(end_date) = toordinal(start_date) + 6

\* C2, as stated: weekdays_between(d, d) = 1 for every date d, a Saturday or
\* a Sunday included.
C2_SameDayIsAlwaysOne ==
    (weekdays # None /\ start_date = end_date) => weekdays[1] = 1

\* C2, amended: weekdays_between(d, d) is 1 when d is a Monday..Friday and 0
\* when d is a Saturday or a Sunday.
C2_SameDayIsOneOnlyOnWeekdays ==
    (weekdays # None /\ start_date = end_date) =>
        weekdays[1] = (IF weekday(start_date) \in {5, 6} THEN 0 ELSE 1)

C2_Witness ==
    /\ weekdays = Some(0)
    /\ start_date = end_date
    /\ weekday(start_date) = 5

\* C7: next_friday(today) is a Friday, between today and today + 6 days,
\* today itself on a Friday, today + 6 days on a Saturday: the earliest
\* Friday on or after today.
C7_NextFridayIsEarliestFriday ==
    friday # None =>
        LET t == toordinal(start_date)
            f == toordinal(friday[1])
        IN  /\ weekday(friday[1]) = FRIDAY
            /\ t <= f /\ f <= t + 6
            /\ (weekday(start_date) = FRIDAY => friday[1] = start_date)
            /\ (weekday(start_date) = 5 => f = t + 6)
            /\ \A n \in t..(f - 1) : weekday(fromordinal(n)) # FRIDAY

C7_Witness ==
    /\ friday # None
    /\ weekday(start_date) = 5
    /\ toordinal(friday[1]) = toordinal(start_date) + 6

(***************************************************************************)
(* Properties of the two reports (Spec)                                    *)
(***************************************************************************)
Ran == pc = "exit" /\ expiry_date # None

has_line(l) == \E i \in 1..Len(out) : out[i].label = l
line_of(l) == out[CHOOSE i \in 1..Len(out) : out[i].label = l].value

\* C3, as stated: with no expiry supplied, a report uses the next Friday
\* computed from today, whatever the open date.
C3_DefaultExpiryIsFridayFromToday ==
    (Ran /\ args.expiry = None) => expiry_date[1] = next_fri

\* C3, amended: with no expiry supplied, a report uses the earliest Friday
\* on or after the open date; that is the next Friday from today only when
\* no Friday lies between the two.
C3_DefaultExpiryIsFridayFromOpen ==
    (Ran /\ args.expiry = None) =>
        /\ weekday(expiry_date[1]) = FRIDAY
        /\ toordinal(args.open) <= toordinal(expiry_date[1])
        /\ toordinal(expiry_date[1]) <= toordinal(args.open) + 6

C3_Witness ==
    /\ Ran /\ args.expiry = None
    /\ args.command = Some("cc")
    /\ args.open # today
    /\ expiry_date[1] # next_fri

\* C4: with expiry < open a report is the one error message, nothing is
\* raised and no metric is shown; with expiry >= open the message is never
\* shown.
C4_ExpiryBeforeOpenIsReported ==
    Ran =>
        /\ (args.expiry # None /\ date_lt(args.expiry[1], args.open)) =>
               (out = <<ExpiryError>> /\ exc = "none")
        /\ ~date_lt(expiry_date[1], args.open) => ~has_line(ExpiryError.label)

C4_Witness ==
    /\ Ran /\ args.command = Some("cc")
    /\ args.expiry # None /\ date_lt(args.expiry[1], args.open)
    /\ out = <<ExpiryError>>

\* C8: run_covered_call shows capital = strike*100 when no basis is
\* supplied, and capital = basis*100, with the gains taken against that
\* basis, for every basis value that is supplied.
C8_SuppliedBasisIsUsed ==
    (Ran /\ args.command = Some("cc") /\ has_line("Capital")) =>
        LET b == IF args.basis = None THEN args.strike ELSE args.basis[1]
        IN  /\ line_of("Capital") = Plain(b * Shares)
            /\ line_of("Pct Max Gain").den = b

no_weekday(s, e) == \A n \in toordinal(s)..toordinal(e) : is_weekend(n)

C10_DefaultExpiryIsSafe ==
    (Ran /\ args.expiry = None) =>
        /\ ~date_lt(expiry_date[1], args.open)
        /\ ~has_line(ExpiryError.label)
        /\ has_line("Days in Market")
        /\ line_of("Days in Market").num \in 1..5
        /\ exc = "none"
        /\ \A i \in 1..Len(out) : out[i].value.per \in {0, line_of("Days in Market").num}

C10_Witness ==
    /\ Ran /\ args.expiry = None
    /\ weekday(args.open) = 5
    /\ toordinal(expiry_date[1]) = toordinal(args.open) + 6
    /\ out[1] = Line("Days in Market", Plain(5))

(***************************************************************************)
(* Properties of handle_date_input (SpecResolver)                          *)
(***************************************************************************)
Resolved == resolved # Pending

is_digits(x) == Len(x) >= 1 /\ \A i \in 1..Len(x) : x[i] \in Digits

RECURSIVE pow10(_)
pow10(k) == IF k = 0 THEN 1 ELSE 10 * pow10(k - 1)

\* a run of digits without its leading zeros
RECURSIVE significant(_)
significant(x) ==
    IF Len(x) >= 1 /\ x[1] = "0" THEN significant(SubSeq(x, 2, Len(x))) ELSE x

\* the number a run of digits writes, digit by place value, when at most 9
\* of them are significant
RECURSIVE place_value(_, _)
place_value(x, i) ==
    IF i > Len(x) THEN 0
    ELSE digit_value(x[i]) * pow10(Len(x) - i) + place_value(x, i + 1)
number(x) == place_value(significant(x), 1)

\* the segments of a text: what lies between its dashes
cuts(s) == {0, Len(s) + 1} \cup {i \in 1..Len(s) : s[i] = "-"}
cut(s, k) == CHOOSE c \in cuts(s) : Cardinality({d \in cuts(s) : d < c}) = k - 1
segment_count(s) == Cardinality(cuts(s)) - 1
segment(s, k) == SubSeq(s, cut(s, k) + 1, cut(s, k + 1) - 1)

\* the (year, month, day) that a text of 1, 2 or 3 digit runs names on the
\* day t
named_date(s, t) ==
    CASE segment_count(s) = 1 -> <<t.year, t.month, number(segment(s, 1))>>
      [] segment_count(s) = 2 -> <<t.year, number(segment(s, 1)), number(segment(s, 2))>>
      [] segment_count(s) = 3 ->
            <<number(segment(s, 1)), number(segment(s, 2)), number(segment(s, 3))>>

plain_segments(s) ==
    /\ segment_count(s) \in 1..3
    /\ \A k \in 1..segment_count(s) :
          is_digits(segment(s, k)) /\ Len(significant(segment(s, k))) <= 9

relative(s) ==
    /\ Len(s) >= 3
    /\ s[1] = "t" /\ s[2] \in {"+", "-"}
    /\ is_digits(SubSeq(s, 3, Len(s)))
    /\ Len(significant(SubSeq(s, 3, Len(s)))) <= 9

\* C6: handle_date_input returns today for no expression, today shifted by
\* N days for "t+N" and by -N days for "t-N", (today.year, today.month, DD)
\* for "DD", (today.year, MM, DD) for "MM-DD" and (YYYY, MM, DD) for
\* "YYYY-MM-DD", whenever that is a date of the calendar.
C6_ResolvesEveryShape ==
    Resolved =>
        /\ date_arg = None => resolved = Returned(today)
        /\ date_arg # None =>
             LET s == date_arg[1] IN
             /\ relative(s) =>
                  LET n == number(SubSeq(s, 3, Len(s)))
                      o == toordinal(today) + (IF s[2] = "-" THEN -n ELSE n)
                  IN  (1 <= o /\ o <= MaxOrdinal) =>
                         /\ resolved.exc = "none"
                         /\ toordinal(resolved.value) = o
                         /\ valid_date(resolved.value.year, resolved.value.month,
                                       resolved.value.day)
             /\ (~startswith(s, "t") /\ plain_segments(s)) =>
                  LET d == named_date(s, today)
                  IN  valid_date(d[1], d[2], d[3]) =>
                         resolved = Returned(MkDate(d[1], d[2], d[3]))

C6_Witness ==
    /\ Resolved
    /\ today = MkDate(2024, 2, 28)
    /\ date_arg = Some(<<"t", "+", "2">>)
    /\ resolved = Returned(MkDate(2024, 3, 1))

\* an optional sign and digits
is_integer(x) ==
    \/ is_digits(x)
    \/ Len(x) >= 2 /\ x[1] \in {"+", "-"} /\ is_digits(SubSeq(x, 2, Len(x)))

unsigned(x) == IF x[1] \in {"+", "-"} THEN SubSeq(x, 2, Len(x)) ELSE x

\* the text is none of the shapes: a 't' without an integer after it, a
\* segment that is no integer, more than 3 segments, or integers that name
\* no date of the calendar (one of more than 9 significant digits names none)
unrecognized(s, t) ==
    IF startswith(s, "t") THEN ~is_integer(SubSeq(s, 2, Len(s)))
    ELSE \/ \E k \in 1..segment_count(s) : ~is_integer(segment(s, k))
         \/ segment_count(s) \notin 1..3
         \/ \E k \in 1..segment_count(s) : Len(significant(unsigned(segment(s, k)))) > 9
         \/ LET u == [i \in 1..Len(s) |-> s[i]]
                p == SelectSeq(u, LAMBDA c : c # "+")
                d == named_date(p, t)
            IN  ~valid_date(d[1], d[2], d[3])

\* C5: for every expression that is none of the recognized shapes,
\* handle_date_input raises ValueError: it returns no date and fails in no
\* other way.
C5_UnrecognizedRaisesValueError ==
    (Resolved /\ date_arg # None /\ unrecognized(date_arg[1], today)) =>
        resolved.exc = "ValueError"

\* the same on the texts of at most MaxLen characters only
ShortUnrecognizedRaisesValueError ==
    (Resolved /\ date_arg # None /\ Len(date_arg[1]) <= MaxLen
        /\ unrecognized(date_arg[1], today)) =>
        resolved.exc = "ValueError"

====
